---- MODULE Spec2Model ----
(***************************************************************************)
(* cart_maker.py: builds an Atari 2600 cartridge image from four           *)
(* hand-written 6502 code chunks.  The script is one forward pass; every   *)
(* block of module-level statements is one action, sequenced by pc.        *)
(*                                                                         *)
(* Byte values are written in decimal, the source's hex in a comment.      *)
(* Python indexes from 0, TLA+ sequences from 1: At(s, off) reads the      *)
(* byte at Python offset off.                                              *)
(***************************************************************************)
EXTENDS Integers, Sequences, FiniteSets, TLC

VARIABLES
    pc,             \* position in the script
    rom_size,       \* line 28 (configuration: 2k or 4k)
    pad_byte,       \* line 29 (configuration)
    extra,          \* number of instruction bytes added to init_tia
    reset_vector,   \* line 38
    init_tia,       \* line 57
    vblank,         \* line 80
    viz_area,       \* line 110
    looptop,        \* line 129
    overscan,       \* line 138
    rom,            \* lines 172, 177, 181, 182
    code_length,    \* line 173
    num_pad_bytes,  \* line 176
    file_written,   \* line 185: the output file has been created
    out_file,       \* line 186: bytes written to the output file
    report          \* lines 189-194: the numbers printed

vars == <<pc, rom_size, pad_byte, extra, reset_vector, init_tia, vblank,
          viz_area, looptop, overscan, rom, code_length, num_pad_bytes,
          file_written, out_file, report>>

----------------------------------------------------------------------------
(* Bounds of the explored configurations *)

\* init_tia is tried with 0..MaxExtra added bytes,
MaxExtra == 3
\* and with as many added bytes as make the code end MaxSlack bytes before
\* the end of the ROM, ... , MaxOver bytes after it.
MaxSlack == 7
MaxOver == 2

----------------------------------------------------------------------------
(* Helpers: lines 20-24 *)

Byte == 0..255

At(s, off) == s[off + 1]

Repeat(b, n) == [i \in 1..n |-> b]

lsb_mask4(word) == word % 16

\* word & 0x00FF
lsb(word) == word % 256

msb_shift9(word) == word \div 512

\* word >> 8 (not masked: the caller must pass a 16-bit word)
msb(word) == word \div 256

----------------------------------------------------------------------------
(* Configuration: lines 27-38 *)

\* "valid values are 2k or 4k"
RomSizes == {2 * 1024, 4 * 1024}

ResetVectorNoPlusOne(rs) == 65535 - rs

\* reset_vector = 0xFFFF - rom_size + 1
ResetVector(rs) == 65535 - rs + 1

----------------------------------------------------------------------------
(* The machine code: lines 57-161 *)

\* The filler instruction used to lengthen init_tia: NOP (0xEA).
Filler == <<234>>

InitTiaCode ==
    << 120,             \* 0x78        SEI
       216,             \* 0xD8        CLD
       162, 255,        \* 0xA2 0xFF   LDX #$FF
       154,             \* 0x9A        TXS
       169, 0,          \* 0xA9 0x00   LDA #0
       232,             \* 0xE8        INX
       168,             \* 0xA8        TAY
       149, 0,          \* 0x95 0x00   STA $00,X
       202,             \* 0xCA        DEX
       208, 251 >>      \* 0xD0 0xFB   BNE -5

VblankCode ==
    << 169, 2,          \* 0xA9 0x02   LDA #2
       133, 1,          \* 0x85 0x01   STA VBLANK
       133, 0,          \* 0x85 0x00   STA VSYNC
       133, 2,          \* 0x85 0x02   STA WSYNC
       133, 2,          \* 0x85 0x02   STA WSYNC
       133, 2,          \* 0x85 0x02   STA WSYNC
       169, 0,          \* 0xA9 0x00   LDA #0
       133, 0,          \* 0x85 0x00   STA VSYNC
       162, 37,         \* 0xA2 0x25   LDX #37
       133, 2,          \* 0x85 0x02   STA WSYNC
       202,             \* 0xCA        DEX
       208, 251,        \* 0xD0 0xFB   BNE -5
       133, 1 >>        \* 0x85 0x01   STA VBLANK

VizAreaCodeBneMinus5 ==
    << 162, 192, 164, 128, 132, 9, 200, 200, 133, 2, 202, 208, 251 >>

VizAreaCode ==
    << 162, 192,        \* 0xA2 0xC0   LDX #192
       164, 128,        \* 0xA4 0x80   LDY $80
       132, 9,          \* 0x84 0x09   STY COLUBK
       200,             \* 0xC8        INY
       200,             \* 0xC8        INY
       133, 2,          \* 0x85 0x02   STA WSYNC
       202,             \* 0xCA        DEX
       208, 247 >>      \* 0xD0 0xF7   BNE -9

LoopTopFromResetVector(rs, n) == 65535 - rs + 1 + n + 5

\* looptop = 0xFFFF - rom_size + len(init_tia) + 5
LoopTop(rs, n) == 65535 - rs + n + 5

OverscanCode(lt) ==
    << 169, 2,          \* 0xA9 0x02   LDA #2
       133, 1,          \* 0x85 0x01   STA VBLANK
       162, 28,         \* 0xA2 0x1C   LDX #28
       133, 2,          \* 0x85 0x02   STA WSYNC
       202,             \* 0xCA        DEX
       208, 251,        \* 0xD0 0xFB   BNE -5
       165, 128,        \* 0xA5 0x80   LDA $80
       56,              \* 0x38        SEC
       233, 4,          \* 0xE9 0x04   SBC
       133, 2,          \* 0x85 0x02   STA WSYNC
       133, 128,        \* 0x85 0x80   STA $80
       169, 2,          \* 0xA9 0x02   LDA #2
       133, 2,          \* 0x85 0x02   STA WSYNC
       76, lsb(lt), msb(lt) >>   \* 0x4C   JMP looptop

\* Length of the four chunks as the source has them (extra = 0).
BaseLength ==
    Len(InitTiaCode) + Len(VblankCode) + Len(VizAreaCode) + Len(OverscanCode(0))

\* The numbers of bytes added to init_tia that are explored for a ROM size.
ExtraLens(rs) ==
    (0..MaxExtra) \cup {rs - BaseLength - s : s \in (0 - MaxOver)..MaxSlack}

----------------------------------------------------------------------------
(* ROM binary build: lines 172-186 *)

StitchSwapped(a, b, c, d) == a \o c \o b \o d

\* rom = init_tia + vblank + viz_area + overscan
Stitch(a, b, c, d) == a \o b \o c \o d

NumPadBytesOffByOne(rs, cl) == rs - cl - 1

\* num_pad_bytes = rom_size - code_length
NumPadBytes(rs, cl) == rs - cl

PadBytesZero(pb, n) == IF n > 0 THEN Repeat(0, n) ELSE << >>

\* bytearray([pad_byte] * num_pad_bytes): a list times a number <= 0 is empty
PadBytes(pb, n) == IF n > 0 THEN Repeat(pb, n) ELSE << >>

\* rom[off] = b
Poke(img, off, b) == [img EXCEPT ![off + 1] = b]

----------------------------------------------------------------------------
Init ==
    /\ pc = "setup"
    /\ rom_size \in RomSizes
    /\ pad_byte \in Byte
    /\ extra \in ExtraLens(rom_size)
    /\ reset_vector = 0
    /\ init_tia = << >>
    /\ vblank = << >>
    /\ viz_area = << >>
    /\ looptop = 0
    /\ overscan = << >>
    /\ rom = << >>
    /\ code_length = 0
    /\ num_pad_bytes = 0
    /\ file_written = FALSE
    /\ out_file = << >>
    /\ report = << >>

\* lines 28-38
SetUp ==
    /\ pc = "setup"
    /\ reset_vector' = ResetVector(rom_size)
    /\ pc' = "code"
    /\ UNCHANGED <<rom_size, pad_byte, extra, init_tia, vblank, viz_area,
                   looptop, overscan, rom, code_length, num_pad_bytes,
                   file_written, out_file, report>>

\* lines 57-161.  bytearray() raises ValueError for an element outside
\* 0..255, which ends the script: the guard on the JMP operand.
DefineCode ==
    /\ pc = "code"
    /\ LET it == InitTiaCode \o Repeat(Filler[1], extra)
           lt == LoopTop(rom_size, Len(it))
       IN  /\ lsb(lt) \in Byte /\ msb(lt) \in Byte
           /\ init_tia' = it
           /\ vblank' = VblankCode
           /\ viz_area' = VizAreaCode
           /\ looptop' = lt
           /\ overscan' = OverscanCode(lt)
    /\ pc' = "stitch"
    /\ UNCHANGED <<rom_size, pad_byte, extra, reset_vector, rom, code_length,
                   num_pad_bytes, file_written, out_file, report>>

\* lines 172-173
StitchChunks ==
    /\ pc = "stitch"
    /\ rom' = Stitch(init_tia, vblank, viz_area, overscan)
    /\ code_length' = Len(rom')
    /\ pc' = "pad"
    /\ UNCHANGED <<rom_size, pad_byte, extra, reset_vector, init_tia, vblank,
                   viz_area, looptop, overscan, num_pad_bytes, file_written,
                   out_file, report>>

\* lines 176-177
Pad ==
    /\ pc = "pad"
    /\ num_pad_bytes' = NumPadBytes(rom_size, code_length)
    /\ rom' = rom \o PadBytes(pad_byte, num_pad_bytes')
    /\ pc' = "poke"
    /\ UNCHANGED <<rom_size, pad_byte, extra, reset_vector, init_tia, vblank,
                   viz_area, looptop, overscan, code_length, file_written,
                   out_file, report>>

\* lines 181-182.  An offset outside the bytearray raises IndexError, a
\* value outside 0..255 ValueError; either ends the script.
PokeResetVector ==
    /\ pc = "poke"
    /\ rom_size - 5 \in 0..(Len(rom) - 1)
    /\ rom_size - 3 \in 0..(Len(rom) - 1)
    /\ lsb(reset_vector) \in Byte /\ msb(reset_vector) \in Byte
    /\ rom' = Poke(Poke(rom, rom_size - 5, lsb(reset_vector)),
                   rom_size - 3, msb(reset_vector))
    /\ pc' = "output"
    /\ UNCHANGED <<rom_size, pad_byte, extra, reset_vector, init_tia, vblank,
                   viz_area, looptop, overscan, code_length, num_pad_bytes,
                   file_written, out_file, report>>

\* lines 185-186
Output ==
    /\ pc = "output"
    /\ file_written' = TRUE
    /\ out_file' = rom
    /\ pc' = "report"
    /\ UNCHANGED <<rom_size, pad_byte, extra, reset_vector, init_tia, vblank,
                   viz_area, looptop, overscan, rom, code_length,
                   num_pad_bytes, report>>

\* lines 189-194
StatusReport ==
    /\ pc = "report"
    /\ report' = <<code_length, Len(rom), reset_vector>>
    /\ pc' = "done"
    /\ UNCHANGED <<rom_size, pad_byte, extra, reset_vector, init_tia, vblank,
                   viz_area, looptop, overscan, rom, code_length,
                   num_pad_bytes, file_written, out_file>>

Next ==
    \/ SetUp
    \/ DefineCode
    \/ StitchChunks
    \/ Pad
    \/ PokeResetVector
    \/ Output
    \/ StatusReport

Spec == Init /\ [][Next]_vars

----------------------------------------------------------------------------
(* Positions of the script *)

\* the image is finished: padded and patched
Built == pc \in {"output", "report", "done"}

\* the chunks have been stitched, so code_length is set
Stitched == pc \in {"pad", "poke", "output", "report", "done"}

\* the chunks have been defined
Coded == pc \in {"stitch", "pad", "poke", "output", "report", "done"}

----------------------------------------------------------------------------
(* Reading the result *)

\* the 16-bit word stored low byte first in the last two bytes of a chunk
JmpOperand(seg) == At(seg, Len(seg) - 2) + 256 * At(seg, Len(seg) - 1)

\* a byte read as a signed 8-bit two's-complement number
Signed8(b) == IF b >= 128 THEN b - 256 ELSE b

\* offsets of the BNE opcodes (0xD0) among the first n bytes of a chunk
BneOffsets(seg, n) == {i \in 0..(n - 2) : At(seg, i) = 208}

\* where the 6502 goes when the BNE at offset i is taken: the offset of the
\* byte after the two-byte instruction, plus the signed operand
BranchTarget(seg, i) == (i + 2) + Signed8(At(seg, i + 1))

\* offset in a chunk of its first STA VSYNC (0x85 0x00)
StaVsyncOffsets(seg) ==
    {i \in 0..(Len(seg) - 2) : At(seg, i) = 133 /\ At(seg, i + 1) = 0}

FirstStaVsync(seg) ==
    CHOOSE i \in StaVsyncOffsets(seg) : \A j \in StaVsyncOffsets(seg) : i <= j

----------------------------------------------------------------------------
(* Claims *)

\* C1: when the chunks total at most rom_size bytes, the finished image
\* (concatenated, padded, patched), and the file written from it, is
\* exactly rom_size bytes long.
C1_LengthIsRomSize ==
    (Built /\ code_length <= rom_size) =>
        /\ Len(rom) = rom_size
        /\ file_written => Len(out_file) = rom_size

C1_Witness ==
    /\ pc = "done"
    /\ code_length < rom_size
    /\ num_pad_bytes > 0
    /\ Len(out_file) = rom_size

C3_OversizeWritesNothing ==
    (Stitched /\ code_length > rom_size) => ~file_written

\* C4 (as claimed): the address in the JMP operand at the end of overscan is
\* (0xFFFF - rom_size + 1) + len(init_tia) + 5, which is 0xF814 for a 2k ROM
\* and the 14-byte init_tia.
C4_Original ==
    Coded =>
        /\ JmpOperand(overscan) = (65535 - rom_size + 1) + Len(init_tia) + 5
        /\ (rom_size = 2048 /\ Len(init_tia) = 14)
              => JmpOperand(overscan) = 63508

\* C4 (amended): the address in the JMP operand at the end of overscan, low
\* byte first, is (0xFFFF - rom_size + 1) + len(init_tia) + 4, which is
\* 0xF812 for a 2k ROM and the 14-byte init_tia.
C4_LoopTopAddress ==
    Coded =>
        /\ JmpOperand(overscan) = (65535 - rom_size + 1) + Len(init_tia) + 4
        /\ At(overscan, Len(overscan) - 2) = looptop % 256
        /\ At(overscan, Len(overscan) - 1) = looptop \div 256
        /\ (rom_size = 2048 /\ Len(init_tia) = 14)
              => JmpOperand(overscan) = 63506

C4_Witness ==
    /\ Coded
    /\ rom_size = 2048
    /\ Len(init_tia) = 14
    /\ JmpOperand(overscan) = 63506

\* C5 (as claimed): when the chunks total at most rom_size bytes, the first
\* code_length bytes of the finished image are the four chunks in order,
\* unchanged by padding and by the reset-vector patch.
C5_Original ==
    (Built /\ code_length <= rom_size) =>
        SubSeq(rom, 1, code_length)
            = init_tia \o vblank \o viz_area \o overscan

\* C5 (amended): when the chunks total at most rom_size - 5 bytes, the first
\* code_length bytes of the finished image are the four chunks in order;
\* when they total at most rom_size, that holds of every offset other than
\* rom_size - 5 and rom_size - 3.
C5_CodeBytesKept ==
    LET code == init_tia \o vblank \o viz_area \o overscan
    IN  /\ (Built /\ code_length <= rom_size - 5) =>
               SubSeq(rom, 1, code_length) = code
        /\ (Built /\ code_length <= rom_size) =>
               /\ code_length = Len(code)
               /\ \A off \in 0..(code_length - 1) :
                      off \notin {rom_size - 5, rom_size - 3}
                          => At(rom, off) = At(code, off)

C5_Witness ==
    /\ pc = "done"
    /\ code_length = rom_size - 5
    /\ SubSeq(rom, 1, code_length)
           = init_tia \o vblank \o viz_area \o overscan

\* C6 (as claimed): the finished image holds the reset vector little-endian
\* in its 4th-highest and 3rd-highest bytes: the low byte at offset
\* rom_size - 4, the high byte at offset rom_size - 3.
C6_ResetVectorAtTop ==
    Built =>
        /\ At(rom, rom_size - 4) = reset_vector % 256
        /\ At(rom, rom_size - 3) = reset_vector \div 256

\* C7 (as claimed): for a 2k ROM padded with 0 the reset address is 0xF801
\* and the image has 0x01 at offset 2043 and 0xF8 at offset 2045.
C7_Original ==
    (Built /\ rom_size = 2048 /\ pad_byte = 0) =>
        /\ reset_vector = 63489
        /\ At(rom, 2043) = 1
        /\ At(rom, 2045) = 248

\* C7 (amended): for a 2k ROM padded with 0 the reset address is 0xF800 and
\* the image has 0x00 at offset 2043 and 0xF8 at offset 2045.
C7_ResetAddress2k ==
    (Built /\ rom_size = 2048 /\ pad_byte = 0) =>
        /\ reset_vector = 63488
        /\ At(rom, 2043) = 0
        /\ At(rom, 2045) = 248

C7_Witness ==
    /\ pc = "done"
    /\ rom_size = 2048
    /\ pad_byte = 0
    /\ extra = 0
    /\ report = <<79, 2048, 63488>>
    /\ At(out_file, 2045) = 248

C10_BranchTargets ==
    Coded =>
        /\ Cardinality(BneOffsets(init_tia, Len(init_tia))) = 1
        /\ \A i \in BneOffsets(init_tia, Len(init_tia)) :
              LET t == BranchTarget(init_tia, i)
              IN  t \in 0..(Len(init_tia) - 1) /\ At(init_tia, t) = 149
        /\ Cardinality(BneOffsets(vblank, Len(vblank))) = 1
        /\ \A i \in BneOffsets(vblank, Len(vblank)) :
              LET t == BranchTarget(vblank, i)
              IN  /\ t \in 0..(Len(vblank) - 2)
                  /\ At(vblank, t) = 133 /\ At(vblank, t + 1) = 2
        /\ Cardinality(BneOffsets(viz_area, Len(viz_area))) = 1
        /\ \A i \in BneOffsets(viz_area, Len(viz_area)) :
              LET t == BranchTarget(viz_area, i)
              IN  /\ t \in 0..(Len(viz_area) - 2)
                  /\ At(viz_area, t) = 132 /\ At(viz_area, t + 1) = 9
        \* the last three bytes of overscan are the JMP and its operand
        /\ Cardinality(BneOffsets(overscan, Len(overscan) - 3)) = 1
        /\ \A i \in BneOffsets(overscan, Len(overscan) - 3) :
              LET t == BranchTarget(overscan, i)
              IN  /\ t \in 0..(Len(overscan) - 2)
                  /\ At(overscan, t) = 133 /\ At(overscan, t + 1) = 2

C10_Witness ==
    /\ pc = "stitch"
    /\ BneOffsets(init_tia, Len(init_tia)) = {12}
    /\ BranchTarget(init_tia, 12) = 9
    /\ BneOffsets(viz_area, Len(viz_area)) = {11}
    /\ BranchTarget(viz_area, 11) = 4

====
